---- MODULE Spec2Model ----
(***************************************************************************)
(* airtray: a panel applet that starts and stops the external "uxplay"     *)
(* helper.  The model covers src/src/app.rs: the Uxplay process manager    *)
(* (manage_uxplay_process, set_airplay) and AirTray::update, together with *)
(* the operating system's side of a child process (spawn, kill, wait,      *)
(* exit).                                                                  *)
(*                                                                         *)
(* The event thread is either between two handlers (pc = "idle") or        *)
(* blocked inside child.wait() (any other pc): wait is the only call of    *)
(* the handlers that blocks on the child, so a handler is one step up to   *)
(* the wait and one step from the wait's return to the handler's end.      *)
(***************************************************************************)
EXTENDS Integers, Sequences, FiniteSets, TLC

\* Bounds of the model.
MaxChildren == 3      \* process-table slots the helper's children may occupy
MaxIds == 3           \* window ids Id::unique() hands out (the main window's included)

None == 0             \* Option::None, for the child handle and the popup id
MainWindowId == 1     \* core.main_window_id(), the first id of the session

Children == 1..MaxChildren
WindowIds == 1..MaxIds

VARIABLES
    airplay,          \* Uxplay.airplay
    process,          \* Uxplay.process: None or the child's id
    airplay_toggle,   \* AirTray.airplay_toggle
    popup,            \* AirTray.popup: None or a window id
    lastId,           \* the last id Id::unique() returned
    procs,            \* the OS's view of each child: "free", "running", "exited"
    pc,               \* position of the event thread
    child,            \* the local `child` taken out of self.process, while waited on
    call,             \* the call in progress or last finished, with what it did
    prevCall,         \* the call before it
    task,             \* the Task the last finished update returned
    spawnFailed       \* whether a spawn attempt has failed so far

vars == <<airplay, process, airplay_toggle, popup, lastId, procs, pc, child, call, prevCall,
          task, spawnFailed>>

----------------------------------------------------------------------------
\* What a call did: process operations in order, println and eprintln lines.

Op(k, c, r) == [k |-> k, c |-> c, r |-> r]

NoCall == [op |-> "none", arg |-> FALSE, pre |-> [airplay |-> FALSE, process |-> None],
           ops |-> <<>>, out |-> <<>>, err |-> <<>>, ret |-> "none"]

\* Task::none(), get_popup(settings of id), destroy_popup(id)
Task(kind, id) == [kind |-> kind, id |-> id]

NoTask == Task("none", None)

\* The execution state threaded through the code of one handler.
Start == [airplay |-> airplay, process |-> process, procs |-> procs,
          ops |-> <<>>, out |-> <<>>, status |-> "Ok", child |-> None]

println(s, line) == [s EXCEPT !.out = Append(@, line)]

FreeIds(ps) == {c \in Children : ps[c] = "free"}

NewChild(ps) == CHOOSE c \in FreeIds(ps) : \A d \in FreeIds(ps) : c <= d

\* Command::new("uxplay").stdout(Stdio::piped()).spawn()? : on success the
\* child runs and self.process holds it; on failure `?` returns the error.
\* The OS refuses a spawn when no slot is free, and may refuse it otherwise.
spawn(s, spawnOk) ==
    IF spawnOk /\ FreeIds(s.procs) # {}
    THEN LET c == NewChild(s.procs) IN
         [s EXCEPT !.procs[c] = "running", !.process = c,
                   !.ops = Append(@, Op("spawn", c, "ok")), !.status = "Ok"]
    ELSE [s EXCEPT !.ops = Append(@, Op("spawn", None, "err")), !.status = "Err"]

\* Variant: the test for a held handle is missing.
is_none_always(s) == TRUE

\* if self.process.is_none()
is_none(s) == s.process = None

\* Variant: the handle is borrowed, not taken, and stays in self.process.
take_borrowed(s) == [s EXCEPT !.child = s.process]

\* self.process.take(): the handle moves into the local `child`
take(s) == [s EXCEPT !.child = s.process, !.process = None]

\* child.kill(): a delivered SIGKILL ends a running child; a failed one
\* changes nothing.
kill(s, killOk) ==
    IF killOk
    THEN [s EXCEPT !.procs[s.child] = "exited", !.ops = Append(@, Op("kill", s.child, "ok"))]
    ELSE println([s EXCEPT !.ops = Append(@, Op("kill", s.child, "err"))],
                 "Failed to kill UXPlay process")

\* Variant: try_wait() in place of wait(): the call polls and returns at once.
wait_polling(s) ==
    [s EXCEPT !.ops = Append(@, Op("wait", s.child, "pending")), !.status = "Ok", !.child = None]

\* child.wait() is entered: the thread blocks until the OS answers.
wait(s) ==
    [s EXCEPT !.ops = Append(@, Op("wait", s.child, "pending")), !.status = "wait"]

\* Variant: no wait after a failed kill.
kill_and_wait_unless_failed(s, killOk) ==
    IF killOk THEN wait(kill(s, killOk)) ELSE [kill(s, killOk) EXCEPT !.child = None]

\* Both arms of `if let Err(e) = child.kill()` go on to child.wait().
kill_and_wait(s, killOk) == wait(kill(s, killOk))

\* Variant: a child that has already exited is dropped without kill and wait.
manage_uxplay_process_skipping_exited(s, spawnOk, killOk) ==
    IF s.airplay
    THEN IF is_none(s)
         THEN spawn(println(s, "Starting UXPlay process"), spawnOk)
         ELSE [s EXCEPT !.status = "Ok"]
    ELSE LET t == take(s) IN
         IF t.child # None /\ s.procs[t.child] # "exited"
         THEN kill_and_wait(println(t, "Stopping UXPlay process"), killOk)
         ELSE [t EXCEPT !.status = "Ok", !.child = None]

manage_uxplay_process(s, spawnOk, killOk) ==
    IF s.airplay
    THEN IF is_none(s)
         THEN spawn(println(s, "Starting UXPlay process"), spawnOk)
         ELSE [s EXCEPT !.status = "Ok"]
    ELSE LET t == take(s) IN
         IF t.child # None
         THEN kill_and_wait(println(t, "Stopping UXPlay process"), killOk)
         ELSE [t EXCEPT !.status = "Ok"]

\* Variant: no guard, every call counts as a change.
changing_always(s, enabled) == TRUE

\* if self.airplay != enabled
changing(s, enabled) == s.airplay # enabled

\* Variant: the flag is stored and reconciled on every call.
set_airplay_unguarded(s, enabled, spawnOk, killOk) ==
    manage_uxplay_process([s EXCEPT !.airplay = enabled], spawnOk, killOk)

\* Variant: the flag is put back when the reconciliation fails.
set_airplay_reverting(s, enabled, spawnOk, killOk) ==
    IF changing(s, enabled)
    THEN LET r == manage_uxplay_process([s EXCEPT !.airplay = enabled], spawnOk, killOk) IN
         IF r.status = "Err" THEN [r EXCEPT !.airplay = s.airplay] ELSE r
    ELSE [s EXCEPT !.status = "Ok"]

set_airplay(s, enabled, spawnOk, killOk) ==
    IF changing(s, enabled)
    THEN manage_uxplay_process([s EXCEPT !.airplay = enabled], spawnOk, killOk)
    ELSE [s EXCEPT !.status = "Ok"]

\* Variant: a failed wait puts the handle back into self.process.
wait_returns_keeping(s, waitOk) ==
    LET n == Len(s.ops) IN
    IF waitOk
    THEN [s EXCEPT !.ops[n].r = "ok", !.procs[s.child] = "free", !.child = None, !.status = "Ok"]
    ELSE println([s EXCEPT !.ops[n].r = "err", !.process = s.child, !.child = None,
                           !.status = "Ok"],
                 "Failed to wait for UXPlay process")

\* child.wait() returns: Ok reaps the exited child, Err leaves it as it is;
\* a failure is printed, and manage_uxplay_process returns Ok(()).
wait_returns(s, waitOk) ==
    LET n == Len(s.ops)
        t == [s EXCEPT !.ops[n].r = IF waitOk THEN "ok" ELSE "err",
                       !.procs = IF waitOk THEN [@ EXCEPT ![s.child] = "free"] ELSE @,
                       !.child = None, !.status = "Ok"]
    IN IF waitOk THEN t ELSE println(t, "Failed to wait for UXPlay process")

\* if let Err(e) = ...set_airplay(..) { eprintln!(..) }
report(r) == IF r.status = "Err" THEN <<"Failed to set airplay">> ELSE <<>>

----------------------------------------------------------------------------
\* Storing the outcome of a handler's step.

Store(r) ==
    /\ airplay' = r.airplay
    /\ process' = r.process
    /\ procs' = r.procs
    /\ child' = r.child
    /\ spawnFailed' = (spawnFailed \/ \E i \in 1..Len(r.ops) : r.ops[i] = Op("spawn", None, "err"))

Record(op, arg, r, errs) ==
    [op |-> op, arg |-> arg, pre |-> [airplay |-> airplay, process |-> process],
     ops |-> r.ops, out |-> r.out, err |-> errs,
     ret |-> IF r.status = "wait" THEN "pending" ELSE r.status]

Init ==
    /\ airplay = FALSE
    /\ process = None
    /\ airplay_toggle = FALSE
    /\ popup = None
    /\ lastId = MainWindowId
    /\ procs = [c \in Children |-> "free"]
    /\ pc = "idle"
    /\ child = None
    /\ call = NoCall
    /\ prevCall = NoCall
    /\ task = NoTask
    /\ spawnFailed = FALSE

\* A direct call of Uxplay::set_airplay(enabled).
CallSetAirplay(enabled) ==
    /\ pc = "idle"
    /\ \E spawnOk \in BOOLEAN, killOk \in BOOLEAN :
         LET r == set_airplay(Start, enabled, spawnOk, killOk) IN
         /\ Store(r)
         /\ pc' = IF r.status = "wait" THEN "set_airplay_wait" ELSE "idle"
         /\ call' = Record("set_airplay", enabled, r, <<>>)
         /\ prevCall' = call
    /\ UNCHANGED <<airplay_toggle, popup, lastId, task>>

\* A direct call of Uxplay::manage_uxplay_process().
CallManage ==
    /\ pc = "idle"
    /\ \E spawnOk \in BOOLEAN, killOk \in BOOLEAN :
         LET r == manage_uxplay_process(Start, spawnOk, killOk) IN
         /\ Store(r)
         /\ pc' = IF r.status = "wait" THEN "manage_wait" ELSE "idle"
         /\ call' = Record("manage", airplay, r, <<>>)
         /\ prevCall' = call
    /\ UNCHANGED <<airplay_toggle, popup, lastId, task>>

\* update(Message::ToggleAirPlay(toggled)), up to a wait or to its end.
ToggleAirPlay(toggled) ==
    /\ pc = "idle"
    /\ airplay_toggle' = toggled
    /\ \E spawnOk1 \in BOOLEAN, killOk1 \in BOOLEAN, spawnOk2 \in BOOLEAN, killOk2 \in BOOLEAN :
         LET r1 == manage_uxplay_process(Start, spawnOk1, killOk1) IN
         IF r1.status = "wait"
         THEN /\ Store(r1)
              /\ pc' = "update_manage_wait"
              /\ call' = Record("update", toggled, r1, <<>>)
              /\ task' = task
         ELSE LET r2 == set_airplay(r1, toggled, spawnOk2, killOk2) IN
              /\ Store(r2)
              /\ pc' = IF r2.status = "wait" THEN "update_set_airplay_wait" ELSE "idle"
              /\ call' = Record("update", toggled, r2, report(r2))
              /\ task' = IF r2.status = "wait" THEN task ELSE NoTask
    /\ prevCall' = call
    /\ UNCHANGED <<popup, lastId>>

\* child.wait() returns and the handler runs to its end.
WaitReturns(waitOk) ==
    /\ pc # "idle"
    /\ waitOk => procs[child] = "exited"
    /\ \E spawnOk \in BOOLEAN, killOk \in BOOLEAN :
         LET s == [airplay |-> airplay, process |-> process, procs |-> procs,
                   ops |-> call.ops, out |-> call.out, status |-> "wait", child |-> child]
             r1 == wait_returns(s, waitOk)
             r == IF pc = "update_manage_wait"
                  THEN set_airplay(r1, airplay_toggle, spawnOk, killOk)
                  ELSE r1
         IN /\ Store(r)
            /\ pc' = IF r.status = "wait" THEN "update_set_airplay_wait" ELSE "idle"
            /\ call' = [call EXCEPT !.ops = r.ops, !.out = r.out,
                                    !.err = IF call.op = "update" THEN report(r) ELSE <<>>,
                                    !.ret = IF r.status = "wait" THEN "pending" ELSE r.status]
            /\ task' = IF call.op = "update" /\ r.status # "wait" THEN NoTask ELSE task
    /\ UNCHANGED <<airplay_toggle, popup, lastId, prevCall>>

\* The helper exits on its own (or is ended from outside).
ChildExits(c) ==
    /\ procs[c] = "running"
    /\ procs' = [procs EXCEPT ![c] = "exited"]
    /\ UNCHANGED <<airplay, process, airplay_toggle, popup, lastId, pc, child, call, prevCall,
                   task, spawnFailed>>

\* Variant: closing or opening the popup also switches the toggle off.
TogglePopup_resetting ==
    /\ pc = "idle"
    /\ IF popup # None
       THEN /\ popup' = None
            /\ lastId' = lastId
            /\ task' = Task("destroy_popup", popup)
       ELSE /\ lastId < MaxIds
            /\ lastId' = lastId + 1
            /\ popup' = lastId + 1
            /\ task' = Task("get_popup", lastId + 1)
    /\ airplay_toggle' = FALSE
    /\ UNCHANGED <<airplay, process, procs, pc, child, call, prevCall, spawnFailed>>

\* update(Message::TogglePopup)
TogglePopup ==
    /\ pc = "idle"
    /\ IF popup # None
       THEN /\ popup' = None
            /\ lastId' = lastId
            /\ task' = Task("destroy_popup", popup)
       ELSE /\ lastId < MaxIds
            /\ lastId' = lastId + 1
            /\ popup' = lastId + 1
            /\ task' = Task("get_popup", lastId + 1)
    /\ UNCHANGED <<airplay, process, airplay_toggle, procs, pc, child, call, prevCall,
                   spawnFailed>>

\* Variant: the tracked id is cleared without comparing it with the closed one.
PopupClosed_any(id) ==
    /\ pc = "idle"
    /\ id <= lastId
    /\ popup' = None
    /\ task' = NoTask
    /\ UNCHANGED <<airplay, process, airplay_toggle, lastId, procs, pc, child, call, prevCall,
                   spawnFailed>>

\* update(Message::PopupClosed(id))
PopupClosed(id) ==
    /\ pc = "idle"
    /\ id <= lastId
    /\ popup' = IF popup = id THEN None ELSE popup
    /\ task' = NoTask
    /\ UNCHANGED <<airplay, process, airplay_toggle, lastId, procs, pc, child, call, prevCall,
                   spawnFailed>>

\* The applet: every event goes through update.
Next ==
    \/ \E b \in BOOLEAN : ToggleAirPlay(b)
    \/ TogglePopup
    \/ \E id \in WindowIds : PopupClosed(id)
    \/ \E ok \in BOOLEAN : WaitReturns(ok)
    \/ \E c \in Children : ChildExits(c)

Spec == Init /\ [][Next]_vars

\* The manager alone, driven through its two methods.
NextUxplay ==
    \/ \E b \in BOOLEAN : CallSetAirplay(b)
    \/ CallManage
    \/ \E ok \in BOOLEAN : WaitReturns(ok)
    \/ \E c \in Children : ChildExits(c)

SpecUxplay == Init /\ [][NextUxplay]_vars

\* Events and direct calls of the manager's methods, in any order.
NextAll == Next \/ NextUxplay

SpecAll == Init /\ [][NextAll]_vars

\* The applet, every call of wait returning sooner or later.
SpecWaitReturns == Spec /\ WF_vars(\E ok \in BOOLEAN : WaitReturns(ok))

----------------------------------------------------------------------------
\* Reading the record of a call.

Idle == pc = "idle"

NotRunningState == [airplay |-> FALSE, process |-> None]

SpawnAttempts(c) == Cardinality({i \in 1..Len(c.ops) : c.ops[i].k = "spawn"})

FailedSpawns(c) ==
    Cardinality({i \in 1..Len(c.ops) : c.ops[i].k = "spawn" /\ c.ops[i].r = "err"})

Kills(c) == Cardinality({i \in 1..Len(c.ops) : c.ops[i].k = "kill"})

Waits(c) == Cardinality({i \in 1..Len(c.ops) : c.ops[i].k = "wait"})

TerminationFailed(c) ==
    \E i \in 1..Len(c.ops) : c.ops[i].k \in {"kill", "wait"} /\ c.ops[i].r = "err"

Running == {c \in Children : procs[c] = "running"}

\* Two set_airplay(true) calls in a row, the first made in the initial
\* state of the manager.
TwiceEnabled ==
    /\ prevCall.op = "set_airplay" /\ prevCall.arg = TRUE
    /\ prevCall.pre = NotRunningState
    /\ call.op = "set_airplay" /\ call.arg = TRUE

\* C1: set_airplay(true) twice in a row, starting from airplay = false and
\* process = None, makes exactly one spawn attempt in total, whether it
\* succeeds or fails; when it succeeded, the handle held after the second
\* call is the one the first call stored.
C1_TwiceEnabledOneSpawn ==
    TwiceEnabled =>
        /\ SpawnAttempts(prevCall) + SpawnAttempts(call) = 1
        /\ SpawnAttempts(call) = 0
        /\ prevCall.ret = "Ok" =>
              /\ process # None
              /\ process = prevCall.ops[1].c
              /\ process = call.pre.process

C1_Witness ==
    /\ TwiceEnabled
    /\ prevCall.ret = "Ok"
    /\ process # None

\* C2: set_airplay(b) with b equal to the stored flag performs no process
\* operation, leaves the flag and the handle as they were, and returns Ok.
C2_SameValueNoOp ==
    (call.op = "set_airplay" /\ call.arg = call.pre.airplay) =>
        /\ call.ops = <<>>
        /\ call.ret = "Ok"
        /\ Idle
        /\ airplay = call.pre.airplay
        /\ process = call.pre.process

C2_Witness ==
    /\ call.op = "set_airplay"
    /\ call.arg = TRUE
    /\ call.pre = [airplay |-> TRUE, process |-> None]

\* C3: when set_airplay(true) is called with airplay = false and process =
\* None and the spawn fails, the call returns an error, the handle stays
\* None and the stored flag is left true.
C3_SpawnFailureLeavesFlagSet ==
    (/\ call.op = "set_airplay" /\ call.arg = TRUE
     /\ call.pre = NotRunningState
     /\ FailedSpawns(call) > 0) =>
        /\ call.ret = "Err"
        /\ process = None
        /\ airplay = TRUE
        /\ SpawnAttempts(call) = 1

C3_Witness ==
    /\ call.op = "set_airplay" /\ call.arg = TRUE
    /\ call.pre = NotRunningState
    /\ call.ops = <<Op("spawn", None, "err")>>
    /\ FreeIds(procs) # {}

\* C4: after a set_airplay(true) whose spawn succeeded the manager holds
\* the handle of that child; after a set_airplay(false) that returned the
\* handle is None, the flag is false and the result is Ok, whatever the
\* kill and the wait answered.
C4_StoppedAfterDisable ==
    /\ (/\ call.op = "set_airplay" /\ call.arg = TRUE
        /\ call.ops # <<>> /\ call.ops[Len(call.ops)] .r = "ok") =>
           /\ process # None
           /\ process = call.ops[Len(call.ops)].c
    /\ (call.op = "set_airplay" /\ call.arg = FALSE /\ Idle) =>
           /\ process = None
           /\ airplay = FALSE
           /\ call.ret = "Ok"

C4_Witness ==
    /\ call.op = "set_airplay" /\ call.arg = FALSE /\ Idle
    /\ Len(call.ops) = 2
    /\ call.ops[1].r = "err"
    /\ call.ops[2].r = "err"
    /\ call.pre.process \in Running

\* C5: a set_airplay(false) made while a handle is held issues exactly one
\* kill on that child and then exactly one wait on it, after a successful
\* kill and after a failed one; made while no handle is held, it issues
\* no kill and no wait.
C5_OneKillThenOneWait ==
    (call.op = "set_airplay" /\ call.arg = FALSE) =>
        IF call.pre.process # None
        THEN /\ Len(call.ops) = 2
             /\ call.ops[1].k = "kill" /\ call.ops[1].c = call.pre.process
             /\ call.ops[2].k = "wait" /\ call.ops[2].c = call.pre.process
        ELSE Kills(call) = 0 /\ Waits(call) = 0

C5_Witness ==
    /\ call.op = "set_airplay" /\ call.arg = FALSE
    /\ call.pre.process # None
    /\ Len(call.ops) = 2
    /\ call.ops[1] = Op("kill", call.pre.process, "err")
    /\ call.ops[2].k = "wait"

\* A set_airplay(false) in which the kill or the wait failed, followed by
\* a set_airplay(true).
EnabledAfterFailedStop ==
    /\ prevCall.op = "set_airplay" /\ prevCall.arg = FALSE
    /\ TerminationFailed(prevCall)
    /\ call.op = "set_airplay" /\ call.arg = TRUE

\* C8: after a set_airplay(false) in which the kill or the wait failed,
\* the next set_airplay(true) makes a spawn attempt and, if the spawn
\* succeeds, stores the handle of the new child.
C8_FailedStopDoesNotBlockStart ==
    EnabledAfterFailedStop =>
        /\ call.pre = NotRunningState
        /\ Len(call.ops) = 1
        /\ call.ops[1].k = "spawn"
        /\ call.ops[1].r = "ok" =>
              /\ call.ret = "Ok"
              /\ process # None
              /\ process = call.ops[1].c
              /\ airplay = TRUE

C8_Witness ==
    /\ EnabledAfterFailedStop
    /\ prevCall.ops[1].r = "err"
    /\ prevCall.ops[2].r = "err"
    /\ call.ops[1].r = "ok"
    /\ process # None

\* C6: between the handling of two events, exactly one helper started by
\* the manager is running when the toggle is enabled, and none when it is
\* disabled.
C6_OneHelperIffEnabled ==
    (Idle /\ call.op = "update") =>
        Cardinality(Running) = IF airplay_toggle THEN 1 ELSE 0

\* C7: at most one helper spawned by the manager is alive at a time.
C7_AtMostOneHelperAlive == Cardinality(Running) <= 1

\* C9: every spawn failure that occurs while update handles a
\* ToggleAirPlay event is reported on standard error by update.
C9_EverySpawnFailureReported ==
    (Idle /\ call.op = "update") => Len(call.err) = FailedSpawns(call)

\* C10: a spawn attempt is made only while handling an event that changes
\* the stored toggle from false to true; a failed spawn is not retried by
\* a later ToggleAirPlay event.
C10_SpawnOnlyWhenTurnedOn ==
    (call.op = "update" /\ SpawnAttempts(call) > 0) =>
        /\ call.pre.airplay = FALSE
        /\ call.arg = TRUE

\* C11: a held handle implies the stored flag is true (whenever airplay is
\* false, process is None), and a spawn is attempted only where process is
\* None: it is the first process operation of its call, the call began
\* with no handle, and a handle held at the start of a call is never
\* replaced by another one.
C11_HandleOnlyWhileEnabled ==
    /\ process # None => airplay = TRUE
    /\ airplay = FALSE => process = None
    /\ \A i \in 1..Len(call.ops) :
          call.ops[i].k = "spawn" => (i = 1 /\ call.pre.process = None)
    /\ (call.pre.process # None /\ process # None) => process = call.pre.process

C11_Witness ==
    /\ Idle
    /\ call.op = "manage"
    /\ call.pre = [airplay |-> TRUE, process |-> None]
    /\ call.ops = <<Op("spawn", process, "ok")>>
    /\ process # None
    /\ prevCall.op = "update"

\* The manager's state, the UI toggle and everything a process operation
\* would change.
ToggleState == <<airplay_toggle, airplay, process, procs, child, pc, call, prevCall>>

\* C12: a TogglePopup or PopupClosed event leaves the UI toggle, the
\* manager's flag and the handle unchanged and performs no process
\* operation; the toggle, the flag and the handle change only while a
\* ToggleAirPlay event is handled.
C12_PopupEventsLeaveToggle ==
    [][/\ (TogglePopup \/ \E id \in WindowIds : PopupClosed(id)) => UNCHANGED ToggleState
       /\ (popup' # popup \/ lastId' # lastId) => UNCHANGED ToggleState
       /\ (airplay_toggle' # airplay_toggle \/ airplay' # airplay \/ process' # process)
             => /\ \E b \in BOOLEAN : ToggleAirPlay(b)
                /\ call'.op = "update"
                /\ UNCHANGED <<popup, lastId>>]_vars

\* The popup was opened and closed again while the helper was held.
C12_Witness ==
    /\ Idle
    /\ process # None
    /\ airplay_toggle = TRUE
    /\ popup = None
    /\ task.kind = "destroy_popup"

\* The held child has exited on its own: the handle is stale.
StaleHandle == process # None /\ procs[process] = "exited"

\* C13: the exit of the child feeds nothing back.  A step in which a child
\* exits changes nothing but the OS's view of it; while a handle is held
\* no spawn is attempted, the toggle stays true and the handle stays, until
\* a ToggleAirPlay(false) is handled: only that step, which turns the
\* stored flag from true to false, empties the handle, and it issues the
\* kill and the wait on the held child, stale or not.
C13_NoFeedbackFromExit ==
    [][/\ (\E c \in Children : ChildExits(c)) =>
             UNCHANGED <<airplay, process, airplay_toggle, pc, child, call, prevCall, task>>
       /\ (process # None /\ (process' # process \/ airplay_toggle' # airplay_toggle)) =>
             /\ ToggleAirPlay(FALSE)
             /\ airplay = TRUE /\ airplay' = FALSE
             /\ airplay_toggle = TRUE /\ airplay_toggle' = FALSE
             /\ process' = None
             /\ Len(call'.ops) = 2
             /\ call'.ops[1].k = "kill" /\ call'.ops[1].c = process
             /\ call'.ops[2].k = "wait" /\ call'.ops[2].c = process
       /\ (process # None /\ call' # call) => SpawnAttempts(call') = 0]_vars

\* The child exited while the toggle was on, and nothing else changed.
C13_Witness ==
    /\ StaleHandle
    /\ Idle
    /\ airplay_toggle = TRUE
    /\ airplay = TRUE
    /\ call.op = "update" /\ call.arg = TRUE
    /\ call.ops = <<Op("spawn", process, "ok")>>

\* The thread is inside child.wait(): the last operation of the call is
\* that wait, not yet answered.
Blocked ==
    /\ pc # "idle"
    /\ call.ops # <<>>
    /\ call.ops[Len(call.ops)] = Op("wait", child, "pending")

AnswerOfWait(c) == c.ops[Len(c.ops)].r

\* C14, as stated: the handler of a toggle-off completes only once the
\* child has exited, so a child that never exits blocks it for ever.
C14_OnlyExitEndsTheWait ==
    [][(pc # "idle" /\ pc' = "idle") => procs[child] = "exited"]_vars

\* C14, amended: the wait blocks with no timeout.  A handler is complete
\* only when no wait of it is unanswered; while the thread is in the wait
\* no UI event is handled and the only way on is the wait's return, which
\* is Ok only once the child has exited, so a child that never exits
\* blocks the handler until the wait returns an error; and every handler
\* completes provided the wait returns.
C14_HandlerBlocksInWait ==
    /\ [](IF Idle THEN \A i \in 1..Len(call.ops) : call.ops[i].r # "pending" ELSE Blocked)
    /\ [][pc # "idle" =>
            /\ (\E ok \in BOOLEAN : WaitReturns(ok)) \/ (\E c \in Children : ChildExits(c))
            /\ UNCHANGED <<airplay_toggle, popup, lastId, prevCall>>
            /\ pc' \in {pc, "idle"}
            /\ pc' = "idle" =>
                  /\ AnswerOfWait(call') \in {"ok", "err"}
                  /\ AnswerOfWait(call') = "ok" => procs[child] = "exited"
                  /\ procs[child] = "running" => AnswerOfWait(call') = "err"]_vars
    /\ (pc # "idle") ~> (pc = "idle")

\* The thread is in the wait on a child that is still running.
C14_Witness ==
    /\ Blocked
    /\ procs[child] = "running"
    /\ call.op = "update" /\ call.arg = FALSE
    /\ airplay_toggle = FALSE

\* C15: after update has handled ToggleAirPlay(b), with any outcome of
\* spawn, kill and wait, the UI toggle and the manager's flag both equal
\* b; the two flags are equal in every state between events.
C15_FlagsAgree ==
    /\ Idle => airplay_toggle = airplay
    /\ (Idle /\ call.op = "update") =>
          /\ airplay_toggle = call.arg
          /\ airplay = call.arg

\* A ToggleAirPlay(true) whose spawn failed has been handled.
C15_Witness ==
    /\ Idle
    /\ call.op = "update" /\ call.arg = TRUE
    /\ call.ops = <<Op("spawn", None, "err")>>
    /\ airplay_toggle = TRUE
    /\ process = None

\* What a handler's step left in the manager and at the OS, with the
\* process operations it made.
SameOutcome(r) ==
    /\ airplay' = r.airplay
    /\ process' = r.process
    /\ procs' = r.procs
    /\ child' = r.child
    /\ call'.ops = r.ops
    /\ call'.out = r.out
    /\ pc' = IF r.status = "wait" THEN "update_set_airplay_wait" ELSE "idle"

\* C16: as long as no spawn attempt has failed, the manage_uxplay_process()
\* call that update makes before set_airplay performs no process operation
\* and changes nothing, whatever spawn and kill would answer, and the
\* handling of ToggleAirPlay(b) makes the process operations and reaches
\* the manager state of a single set_airplay(b) call.
C16_FirstReconcileRedundant ==
    /\ []((Idle /\ ~spawnFailed) =>
            \A spawnOk \in BOOLEAN, killOk \in BOOLEAN :
                manage_uxplay_process(Start, spawnOk, killOk) = Start)
    /\ [][\A b \in BOOLEAN :
            (ToggleAirPlay(b) /\ ~spawnFailed) =>
                \E spawnOk \in BOOLEAN, killOk \in BOOLEAN :
                    SameOutcome(set_airplay(Start, b, spawnOk, killOk))]_vars

\* A toggle-off handled, with its kill and wait, in an execution without
\* a failed spawn.
C16_Witness ==
    /\ ~spawnFailed
    /\ call.op = "update" /\ call.arg = FALSE
    /\ Len(call.ops) = 2
    /\ prevCall.op = "update" /\ prevCall.arg = TRUE
    /\ prevCall.ops = <<>>

\* C17: the applet tracks at most one popup id.  TogglePopup with none
\* tracked records an id never handed out before and requests that popup;
\* TogglePopup with one tracked clears it and requests its destruction;
\* PopupClosed(id) clears the tracked id only when id equals it, so the
\* close of an earlier popup never clears the id of a later one; a tracked
\* id is never replaced by another without being cleared first.
C17_OnePopupTracked ==
    /\ [](popup = None \/ (popup = lastId /\ popup # MainWindowId))
    /\ [][/\ (TogglePopup /\ popup = None) =>
                /\ popup' # None
                /\ popup' \notin 1..lastId
                /\ task' = Task("get_popup", popup')
          /\ (TogglePopup /\ popup # None) =>
                /\ popup' = None
                /\ task' = Task("destroy_popup", popup)
          /\ \A id \in WindowIds :
                PopupClosed(id) =>
                    /\ popup' = IF id = popup THEN None ELSE popup
                    /\ (popup # None /\ id < popup) => popup' = popup
                    /\ task' = NoTask
          /\ (popup # None /\ popup' # popup) => popup' = None]_vars

\* A second popup is tracked, and a PopupClosed that did not name it has
\* been handled since it was opened.
C17_Witness ==
    /\ popup = MainWindowId + 2
    /\ lastId = popup
    /\ task = NoTask
    /\ call = NoCall

====
